---- MODULE Spec2Model ----
(***************************************************************************)
(* A model of lab5.py: the recursive-descent parser ParserForRegex, the    *)
(* Thompson construction NFABuilder, the exporter NFAExporter and the      *)
(* driver process_regex.  One behaviour is one run of process_regex on one *)
(* pattern.  The recursion of the parser and of the builder is unfolded    *)
(* into explicit call stacks, one action per step of each function.        *)
(***************************************************************************)
EXTENDS Integers, Sequences, FiniteSets, TLC

(***************************************************************************)
(* Bounds of the model.                                                    *)
(***************************************************************************)
\* every pattern of at most MaxLen characters over Alphabet is an input
MaxLen == 4
\* every string of at most MaxStr characters over Alphabet is a test string
MaxStr == 2

(***************************************************************************)
(* Characters.  A character is a one-character string.                     *)
(***************************************************************************)
SPECIAL_SYMBOLS == {"+", "*", "(", ")", "|"}

EscapeChar == "\\"

Literals == {"a", "b"}

Alphabet == Literals \cup SPECIAL_SYMBOLS \cup {EscapeChar}

RECURSIVE SeqsUpTo(_, _)
SeqsUpTo(S, n) ==
    IF n = 0 THEN {<<>>}
    ELSE LET prev == SeqsUpTo(S, n - 1)
         IN  prev \cup {Append(s, x) : s \in {p \in prev : Len(p) = n - 1}, x \in S}

\* the patterns and strings the specification's examples name
ExamplePatterns ==
    { <<"(", "a", "|", "b", ")", "*", "c">>,
      <<"a", "|", "b", "c", "*">>,
      <<"(", "a", "b", ")", "+", "|", "c">>,
      <<"a", "(", ")", "b", "*">>,
      <<"(", "a", "|", "b", ")", ")", "(">>,
      <<"\\", "(", "a", "\\", ")", "*">> }

ExampleStrings ==
    { <<"c">>, <<"a", "c">>, <<"b", "b", "b", "a", "c">>, <<"a", "b">>,
      <<"a", "a", "a", "a">>, <<"a", "b", "a", "b">>, <<"a", "b", "c">>,
      <<"b", "c", "c">>, <<"(", "a", ")", ")">>, <<"(", "a", ")">> }

Patterns == SeqsUpTo(Alphabet, MaxLen) \cup ExamplePatterns

(***************************************************************************)
(* NodeForRegex: val, l_child, r_child; None is the empty tuple.           *)
(***************************************************************************)
None == <<>>

NodeForRegex(val, l_child, r_child) == <<val, l_child, r_child>>

\* the node an escaped special symbol becomes: NodeForRegex(esc_char)
EscNodeWrong(esc_char) == NodeForRegex(EscapeChar, None, None)
EscapedNode(esc_char) == NodeForRegex(esc_char, None, None)

\* deque.appendleft(esc_char) on the queue left after the two poplefts
AppendLeftWrong(esc_char, queue) == <<EscapeChar, esc_char>> \o queue
AppendLeft(esc_char, queue) == <<esc_char>> \o queue

_is_regular_char(char) == char \notin SPECIAL_SYMBOLS

(***************************************************************************)
(* The state of one run of process_regex.                                  *)
(***************************************************************************)
VARIABLES
    regex_pattern,     \* args[1]
    pc,                \* the position of process_regex
    token_queue,       \* ParserForRegex.token_queue
    stack,             \* the parser's call stack: frames [fn, at, node]
    ret,               \* the node a parser function has just returned, or None
    syntax_tree,       \* process_regex's syntax_tree, or None
    bstack,            \* NFABuilder.construct's call stack: frames [node, at]
    frags,             \* the NFAs returned to construct calls still running
    char_transitions,  \* per AutomataState: its dict, as a sequence of <<symbol, targets>>
    eps_transitions,   \* per AutomataState: its list of epsilon targets
    nfa_automaton,     \* process_regex's nfa_automaton, or None
    state_ids,         \* the states given an identifier, in the order S0, S1, ...
    todo,              \* the stack of _assign_state_ids
    out_file,          \* the contents of the output file, or None
    output             \* what process_regex printed, or None

vars == <<regex_pattern, pc, token_queue, stack, ret, syntax_tree, bstack, frags,
          char_transitions, eps_transitions, nfa_automaton, state_ids, todo, out_file,
          output>>

parser_vars == <<token_queue, stack, ret>>
builder_vars == <<bstack, frags, char_transitions, eps_transitions>>
exporter_vars == <<state_ids, todo>>
result_vars == <<syntax_tree, nfa_automaton, out_file, output>>

Init ==
    /\ regex_pattern \in Patterns
    /\ pc = "parse"
    /\ token_queue = <<>>
    /\ stack = <<>>
    /\ ret = None
    /\ syntax_tree = None
    /\ bstack = <<>>
    /\ frags = <<>>
    /\ char_transitions = <<>>
    /\ eps_transitions = <<>>
    /\ nfa_automaton = None
    /\ state_ids = <<>>
    /\ todo = <<>>
    /\ out_file = None
    /\ output = None

(***************************************************************************)
(* The parser.                                                             *)
(***************************************************************************)
\* a call frame: the function, its position, its local left_node / node; entry is
\* history: the length of the token queue when the call, or the loop iteration the
\* function is in, began
Frame(fn, at, node, entry) == [fn |-> fn, at |-> at, node |-> node, entry |-> entry]

Top == stack[Len(stack)]

Running(fn, at) ==
    /\ pc = "parsing"
    /\ stack # <<>>
    /\ Top.fn = fn
    /\ Top.at = at

Pop(s) == SubSeq(s, 1, Len(s) - 1)

SetTop(s, f) == [s EXCEPT ![Len(s)] = f]

\* the running function calls fn and waits for it at `at`
Call(fn, at, node, entry, queue) ==
    stack' = Append(SetTop(stack, Frame(Top.fn, at, node, entry)),
                    Frame(fn, "call", None, Len(queue)))

\* the running function returns node to its caller
Return(node) ==
    /\ stack' = Pop(stack)
    /\ ret' = node

\* an exception leaves every parser function and reaches process_regex's except
Raise(msg) ==
    /\ pc' = "failed"
    /\ stack' = <<>>
    /\ ret' = None
    /\ output' = <<"error", msg>>

\* parser.parse(regex_pattern)
Parse ==
    /\ pc = "parse"
    /\ pc' = "parsing"
    /\ token_queue' = regex_pattern
    /\ stack' = <<Frame("expr", "call", None, Len(regex_pattern))>>
    /\ UNCHANGED <<regex_pattern, ret, builder_vars, exporter_vars, result_vars>>

\* _parse_expr: left_node = self._parse_term()
ExprCall ==
    /\ Running("expr", "call")
    /\ Call("term", "first", None, Top.entry, token_queue)
    /\ UNCHANGED <<regex_pattern, pc, token_queue, ret, builder_vars, exporter_vars, result_vars>>

ExprFirst ==
    /\ Running("expr", "first")
    /\ stack' = SetTop(stack, Frame("expr", "loop", ret, Top.entry))
    /\ ret' = None
    /\ UNCHANGED <<regex_pattern, pc, token_queue, builder_vars, exporter_vars, result_vars>>

\* _parse_expr: the loop's test holds; popleft, right_node = self._parse_term()
ExprIter ==
    /\ Running("expr", "loop")
    /\ token_queue # <<>> /\ Head(token_queue) = "|"
    /\ token_queue' = Tail(token_queue)
    /\ Call("term", "right", Top.node, Len(token_queue), Tail(token_queue))
    /\ UNCHANGED <<regex_pattern, pc, ret, builder_vars, exporter_vars, result_vars>>

ExprFold ==
    /\ Running("expr", "right")
    /\ stack' = SetTop(stack, Frame("expr", "loop", NodeForRegex("OR_OP", Top.node, ret), Top.entry))
    /\ ret' = None
    /\ UNCHANGED <<regex_pattern, pc, token_queue, builder_vars, exporter_vars, result_vars>>

ExprReturn ==
    /\ Running("expr", "loop")
    /\ ~(token_queue # <<>> /\ Head(token_queue) = "|")
    /\ Return(Top.node)
    /\ UNCHANGED <<regex_pattern, pc, token_queue, builder_vars, exporter_vars, result_vars>>

\* _parse_term: left_node = self._parse_factor()
TermCall ==
    /\ Running("term", "call")
    /\ Call("factor", "first", None, Top.entry, token_queue)
    /\ UNCHANGED <<regex_pattern, pc, token_queue, ret, builder_vars, exporter_vars, result_vars>>

TermFirst ==
    /\ Running("term", "first")
    /\ stack' = SetTop(stack, Frame("term", "loop", ret, Top.entry))
    /\ ret' = None
    /\ UNCHANGED <<regex_pattern, pc, token_queue, builder_vars, exporter_vars, result_vars>>

TermContinues ==
    /\ token_queue # <<>>
    /\ (_is_regular_char(Head(token_queue)) \/ Head(token_queue) = "(")

\* _parse_term: the loop's test holds; right_node = self._parse_factor()
TermIter ==
    /\ Running("term", "loop")
    /\ TermContinues
    /\ Call("factor", "right", Top.node, Len(token_queue), token_queue)
    /\ UNCHANGED <<regex_pattern, pc, token_queue, ret, builder_vars, exporter_vars, result_vars>>

TermFold ==
    /\ Running("term", "right")
    /\ stack' = SetTop(stack, Frame("term", "loop", NodeForRegex("CONCAT_OP", Top.node, ret), Top.entry))
    /\ ret' = None
    /\ UNCHANGED <<regex_pattern, pc, token_queue, builder_vars, exporter_vars, result_vars>>

TermReturn ==
    /\ Running("term", "loop")
    /\ ~TermContinues
    /\ Return(Top.node)
    /\ UNCHANGED <<regex_pattern, pc, token_queue, builder_vars, exporter_vars, result_vars>>

\* _parse_factor: node = self._parse_primary()
FactorCall ==
    /\ Running("factor", "call")
    /\ Call("primary", "first", None, Top.entry, token_queue)
    /\ UNCHANGED <<regex_pattern, pc, token_queue, ret, builder_vars, exporter_vars, result_vars>>

FactorFirst ==
    /\ Running("factor", "first")
    /\ stack' = SetTop(stack, Frame("factor", "loop", ret, Top.entry))
    /\ ret' = None
    /\ UNCHANGED <<regex_pattern, pc, token_queue, builder_vars, exporter_vars, result_vars>>

FactorContinues ==
    /\ token_queue # <<>>
    /\ (Head(token_queue) = "*" \/ Head(token_queue) = "+")

\* _parse_factor: one iteration of the loop
FactorIter ==
    /\ Running("factor", "loop")
    /\ FactorContinues
    /\ LET op == IF Head(token_queue) = "*" THEN "STAR_OP" ELSE "PLUS_OP"
       IN  stack' = SetTop(stack, Frame("factor", "loop", NodeForRegex(op, Top.node, None), Top.entry))
    /\ token_queue' = Tail(token_queue)
    /\ UNCHANGED <<regex_pattern, pc, ret, builder_vars, exporter_vars, result_vars>>

FactorReturn ==
    /\ Running("factor", "loop")
    /\ ~FactorContinues
    /\ Return(Top.node)
    /\ UNCHANGED <<regex_pattern, pc, token_queue, builder_vars, exporter_vars, result_vars>>

\* _parse_primary, from its entry to its return, its raise or its call of _parse_expr
PrimaryBody(current_token, queue) ==
    IF _is_regular_char(current_token)
    THEN /\ token_queue' = queue
         /\ Return(NodeForRegex(current_token, None, None))
         /\ UNCHANGED <<pc, output>>
    ELSE IF current_token = "("
    THEN /\ token_queue' = queue
         /\ Call("expr", "inner", None, Top.entry, queue)
         /\ UNCHANGED <<pc, ret, output>>
    ELSE /\ token_queue' = queue
         /\ Raise("invalid character")

Primary ==
    /\ Running("primary", "call")
    /\ IF token_queue = <<>>
       THEN /\ Raise("unexpected end of expression")
            /\ UNCHANGED token_queue
       ELSE LET current_token == Head(token_queue)
                rest == Tail(token_queue)
            IN  IF current_token = EscapeChar
                THEN IF rest = <<>>
                     THEN /\ Raise("no character to escape")
                          /\ token_queue' = rest
                     ELSE LET esc_char == Head(rest)
                          IN  IF _is_regular_char(esc_char)
                              THEN PrimaryBody(current_token, AppendLeft(esc_char, Tail(rest)))
                              ELSE /\ token_queue' = Tail(rest)
                                   /\ Return(EscapedNode(esc_char))
                                   /\ UNCHANGED <<pc, output>>
                ELSE PrimaryBody(current_token, rest)
    /\ UNCHANGED <<regex_pattern, builder_vars, exporter_vars, syntax_tree, nfa_automaton, out_file>>

\* _parse_primary after inner_node = self._parse_expr()
PrimaryInner ==
    /\ Running("primary", "inner")
    /\ IF token_queue = <<>>
       THEN /\ Raise("unbalanced parentheses")
            /\ UNCHANGED token_queue
       ELSE /\ token_queue' = Tail(token_queue)
            /\ IF Head(token_queue) # ")"
               THEN Raise("unbalanced parentheses")
               ELSE /\ Return(ret)
                    /\ UNCHANGED <<pc, output>>
    /\ UNCHANGED <<regex_pattern, builder_vars, exporter_vars, syntax_tree, nfa_automaton, out_file>>

\* parse returns: syntax_tree = parser.parse(regex_pattern)
ParseReturn ==
    /\ pc = "parsing"
    /\ stack = <<>>
    /\ syntax_tree' = ret
    /\ ret' = None
    /\ pc' = "construct"
    /\ UNCHANGED <<regex_pattern, token_queue, stack, builder_vars, exporter_vars,
                   nfa_automaton, out_file, output>>

ParserStep ==
    \/ Parse
    \/ ExprCall \/ ExprFirst \/ ExprIter \/ ExprFold \/ ExprReturn
    \/ TermCall \/ TermFirst \/ TermIter \/ TermFold \/ TermReturn
    \/ FactorCall \/ FactorFirst \/ FactorIter \/ FactorReturn
    \/ Primary \/ PrimaryInner
    \/ ParseReturn

(***************************************************************************)
(* AutomataState, NFA and NFABuilder.  An AutomataState is its index in    *)
(* char_transitions and eps_transitions: identity is the object, never its *)
(* contents.                                                               *)
(***************************************************************************)
NFA(init_state, final_state) == [init_state |-> init_state, final_state |-> final_state]

OPERATORS == {"CONCAT_OP", "OR_OP", "STAR_OP", "PLUS_OP"}

\* two AutomataState() calls: empty dict, empty list
TwoNewStates(table) == table \o << <<>>, <<>> >>

\* AutomataState.add_char_transition on the dict of one state
add_char_transition(dict, symbol, target) ==
    IF \E i \in 1..Len(dict) : dict[i][1] = symbol
    THEN [i \in 1..Len(dict) |->
            IF dict[i][1] = symbol THEN <<symbol, Append(dict[i][2], target)>> ELSE dict[i]]
    ELSE Append(dict, <<symbol, <<target>> >>)

\* AutomataState.add_eps_transition of state s
add_eps_transition(eps, s, target) == [eps EXCEPT ![s] = Append(@, target)]

\* the builders give the new tables and the returned NFA
_build_single_char(chars, char) ==
    LET s1 == Len(chars) + 1
        s2 == Len(chars) + 2
    IN  [chars |-> [TwoNewStates(chars) EXCEPT ![s1] = add_char_transition(@, char, s2)],
         nfa |-> NFA(s1, s2)]

BuildConcatNoLink(eps, first, second) ==
    [eps |-> eps, nfa |-> NFA(first.init_state, second.final_state)]
_build_concat(eps, first, second) ==
    [eps |-> add_eps_transition(eps, first.final_state, second.init_state),
     nfa |-> NFA(first.init_state, second.final_state)]

_build_alternation(eps, first, second) ==
    LET new_start == Len(eps) + 1
        new_end == Len(eps) + 2
        e1 == add_eps_transition(TwoNewStates(eps), new_start, first.init_state)
        e2 == add_eps_transition(e1, new_start, second.init_state)
        e3 == add_eps_transition(e2, first.final_state, new_end)
        e4 == add_eps_transition(e3, second.final_state, new_end)
    IN  [eps |-> e4, nfa |-> NFA(new_start, new_end)]

BuildStarNoSkip(eps, nfa) ==
    LET new_start == Len(eps) + 1
        new_end == Len(eps) + 2
        e1 == add_eps_transition(TwoNewStates(eps), new_start, nfa.init_state)
        e3 == add_eps_transition(e1, nfa.final_state, nfa.init_state)
        e4 == add_eps_transition(e3, nfa.final_state, new_end)
    IN  [eps |-> e4, nfa |-> NFA(new_start, new_end)]
_build_star(eps, nfa) ==
    LET new_start == Len(eps) + 1
        new_end == Len(eps) + 2
        e1 == add_eps_transition(TwoNewStates(eps), new_start, nfa.init_state)
        e2 == add_eps_transition(e1, new_start, new_end)
        e3 == add_eps_transition(e2, nfa.final_state, nfa.init_state)
        e4 == add_eps_transition(e3, nfa.final_state, new_end)
    IN  [eps |-> e4, nfa |-> NFA(new_start, new_end)]

BuildPlusLoopOnEnd(eps, nfa) ==
    LET new_start == Len(eps) + 1
        new_end == Len(eps) + 2
        e1 == add_eps_transition(TwoNewStates(eps), new_start, nfa.init_state)
        e2 == add_eps_transition(e1, nfa.final_state, new_end)
        e3 == add_eps_transition(e2, new_end, nfa.init_state)
    IN  [eps |-> e3, nfa |-> NFA(new_start, new_end)]
_build_plus(eps, nfa) ==
    LET new_start == Len(eps) + 1
        new_end == Len(eps) + 2
        e1 == add_eps_transition(TwoNewStates(eps), new_start, nfa.init_state)
        e2 == add_eps_transition(e1, nfa.final_state, nfa.init_state)
        e3 == add_eps_transition(e2, nfa.final_state, new_end)
    IN  [eps |-> e3, nfa |-> NFA(new_start, new_end)]

BFrame(node, at) == [node |-> node, at |-> at]

BTop == bstack[Len(bstack)]

Building(at) ==
    /\ pc = "constructing"
    /\ bstack # <<>>
    /\ BTop.at = at

\* builder = NFABuilder(); builder.construct(syntax_tree) is called
ConstructStart ==
    /\ pc = "construct"
    /\ pc' = "constructing"
    /\ bstack' = <<BFrame(syntax_tree, "call")>>
    /\ UNCHANGED <<regex_pattern, parser_vars, frags, char_transitions,
                   eps_transitions, exporter_vars, result_vars>>

\* construct on CONCAT_OP or OR_OP: self.construct(node.l_child) is called first
ConstructLeft ==
    /\ Building("call")
    /\ BTop.node[1] \in {"CONCAT_OP", "OR_OP"}
    /\ bstack' = Append(SetTop(bstack, BFrame(BTop.node, "left")), BFrame(BTop.node[2], "call"))
    /\ UNCHANGED <<regex_pattern, pc, parser_vars, frags, char_transitions,
                   eps_transitions, exporter_vars, result_vars>>

\* then self.construct(node.r_child)
ConstructRight ==
    /\ Building("left")
    /\ bstack' = Append(SetTop(bstack, BFrame(BTop.node, "right")), BFrame(BTop.node[3], "call"))
    /\ UNCHANGED <<regex_pattern, pc, parser_vars, frags, char_transitions,
                   eps_transitions, exporter_vars, result_vars>>

\* construct on STAR_OP or PLUS_OP: self.construct(node.l_child) is called
ConstructChild ==
    /\ Building("call")
    /\ BTop.node[1] \in {"STAR_OP", "PLUS_OP"}
    /\ bstack' = Append(SetTop(bstack, BFrame(BTop.node, "child")), BFrame(BTop.node[2], "call"))
    /\ UNCHANGED <<regex_pattern, pc, parser_vars, frags, char_transitions,
                   eps_transitions, exporter_vars, result_vars>>

BuildSingleChar ==
    /\ Building("call")
    /\ BTop.node[1] \notin OPERATORS
    /\ LET r == _build_single_char(char_transitions, BTop.node[1])
       IN  /\ char_transitions' = r.chars
           /\ eps_transitions' = TwoNewStates(eps_transitions)
           /\ frags' = Append(frags, r.nfa)
    /\ bstack' = Pop(bstack)
    /\ UNCHANGED <<regex_pattern, pc, parser_vars, exporter_vars, result_vars>>

BuildConcat ==
    /\ Building("right")
    /\ BTop.node[1] = "CONCAT_OP"
    /\ LET r == _build_concat(eps_transitions, frags[Len(frags) - 1], frags[Len(frags)])
       IN  /\ eps_transitions' = r.eps
           /\ frags' = Append(Pop(Pop(frags)), r.nfa)
    /\ bstack' = Pop(bstack)
    /\ UNCHANGED <<regex_pattern, pc, parser_vars, char_transitions, exporter_vars, result_vars>>

BuildAlternation ==
    /\ Building("right")
    /\ BTop.node[1] = "OR_OP"
    /\ LET r == _build_alternation(eps_transitions, frags[Len(frags) - 1], frags[Len(frags)])
       IN  /\ eps_transitions' = r.eps
           /\ frags' = Append(Pop(Pop(frags)), r.nfa)
    /\ char_transitions' = TwoNewStates(char_transitions)
    /\ bstack' = Pop(bstack)
    /\ UNCHANGED <<regex_pattern, pc, parser_vars, exporter_vars, result_vars>>

BuildStar ==
    /\ Building("child")
    /\ BTop.node[1] = "STAR_OP"
    /\ LET r == _build_star(eps_transitions, frags[Len(frags)])
       IN  /\ eps_transitions' = r.eps
           /\ frags' = Append(Pop(frags), r.nfa)
    /\ char_transitions' = TwoNewStates(char_transitions)
    /\ bstack' = Pop(bstack)
    /\ UNCHANGED <<regex_pattern, pc, parser_vars, exporter_vars, result_vars>>

BuildPlus ==
    /\ Building("child")
    /\ BTop.node[1] = "PLUS_OP"
    /\ LET r == _build_plus(eps_transitions, frags[Len(frags)])
       IN  /\ eps_transitions' = r.eps
           /\ frags' = Append(Pop(frags), r.nfa)
    /\ char_transitions' = TwoNewStates(char_transitions)
    /\ bstack' = Pop(bstack)
    /\ UNCHANGED <<regex_pattern, pc, parser_vars, exporter_vars, result_vars>>

\* nfa_automaton = builder.construct(syntax_tree)
ConstructReturn ==
    /\ pc = "constructing"
    /\ bstack = <<>>
    /\ nfa_automaton' = frags[1]
    /\ frags' = <<>>
    /\ pc' = "save"
    /\ UNCHANGED <<regex_pattern, parser_vars, bstack, char_transitions, eps_transitions,
                   exporter_vars, syntax_tree, out_file, output>>

BuilderStep ==
    \/ ConstructStart
    \/ ConstructLeft \/ ConstructRight \/ ConstructChild
    \/ BuildSingleChar \/ BuildConcat \/ BuildAlternation \/ BuildStar \/ BuildPlus
    \/ ConstructReturn

(***************************************************************************)
(* NFAExporter.                                                            *)
(***************************************************************************)
Range(s) == {s[i] : i \in 1..Len(s)}

RECURSIVE Flatten(_)
Flatten(ss) == IF ss = <<>> THEN <<>> ELSE Head(ss) \o Flatten(Tail(ss))

\* every target of a state's dict, in the dict's order
CharTargets(chars, s) == Flatten([i \in 1..Len(chars[s]) |-> chars[s][i][2]])

\* the number k of the identifier "Sk" of state s
IdOf(ids, s) == (CHOOSE i \in 1..Len(ids) : ids[i] = s) - 1

EPS == "eps"

\* the transition symbols in the order sorted() gives them
SymbolOrder == <<"(", ")", "*", "+", "\\", "a", "b", "c", "|", EPS>>

\* transitions[id_] of state s: symbol -> set of target identifiers
TransitionsOf(chars, eps, ids, s) ==
    LET dict == chars[s]
        keys == {dict[i][1] : i \in 1..Len(dict)} \cup (IF eps[s] # <<>> THEN {EPS} ELSE {})
    IN  [symbol \in keys |->
            IF symbol = EPS
            THEN {IdOf(ids, t) : t \in Range(eps[s])}
            ELSE LET i == CHOOSE j \in 1..Len(dict) : dict[j][1] = symbol
                 IN  {IdOf(ids, t) : t \in Range(dict[i][2])}]

\* the file: the row of final marks, the row of identifiers, one row per symbol;
\* a cell is the set of target identifiers that the file joins with ","
FileOf(chars, eps, ids, nfa) ==
    LET accepting_state == IdOf(ids, nfa.final_state)
        n == Len(ids)
        transitions == [k \in 1..n |-> TransitionsOf(chars, eps, ids, ids[k])]
        symbols == UNION {DOMAIN transitions[k] : k \in 1..n}
        rows == SelectSeq(SymbolOrder, LAMBDA sym : sym \in symbols)
    IN  [marks |-> [k \in 1..n |-> IF k - 1 = accepting_state THEN "1" ELSE "0"],
         ids |-> [k \in 1..n |-> k - 1],
         rows |-> [r \in 1..Len(rows) |->
                     <<rows[r], [k \in 1..n |->
                                   IF rows[r] \in DOMAIN transitions[k]
                                   THEN transitions[k][rows[r]] ELSE {}]>>]]

\* save_to_file calls _assign_state_ids(nfa.init_state): state_ids = {}, stack = [start_state]
AssignStart ==
    /\ pc = "save"
    /\ state_ids' = <<>>
    /\ todo' = <<nfa_automaton.init_state>>
    /\ pc' = "assigning"
    /\ UNCHANGED <<regex_pattern, parser_vars, builder_vars, result_vars>>

\* the targets _assign_state_ids pushes for current: those with no identifier yet,
\* the symbol targets in the dict's order, then the epsilon targets
Unvisited(current, ids) ==
    SelectSeq(CharTargets(char_transitions, current) \o eps_transitions[current],
              LAMBDA t : t \notin Range(ids))

\* one iteration of the while loop of _assign_state_ids
AssignIter ==
    /\ pc = "assigning"
    /\ todo # <<>>
    /\ LET current == todo[Len(todo)]
       IN  IF current \in Range(state_ids)
           THEN /\ todo' = Pop(todo)
                /\ UNCHANGED state_ids
           ELSE /\ state_ids' = Append(state_ids, current)
                /\ todo' = Pop(todo) \o Unvisited(current, Append(state_ids, current))
    /\ UNCHANGED <<regex_pattern, pc, parser_vars, builder_vars, result_vars>>

\* _assign_state_ids returns state_ids
AssignReturn ==
    /\ pc = "assigning"
    /\ todo = <<>>
    /\ pc' = "write"
    /\ UNCHANGED <<regex_pattern, parser_vars, builder_vars, exporter_vars, result_vars>>

\* the rest of save_to_file and the print after it; state_ids[nfa.final_state]
\* raises KeyError when the final state was given no identifier
WriteFile ==
    /\ pc = "write"
    /\ IF nfa_automaton.final_state \in Range(state_ids)
       THEN /\ out_file' = FileOf(char_transitions, eps_transitions, state_ids, nfa_automaton)
            /\ output' = <<"saved">>
            /\ pc' = "done"
       ELSE /\ out_file' = out_file
            /\ output' = <<"error", "KeyError">>
            /\ pc' = "failed"
    /\ UNCHANGED <<regex_pattern, parser_vars, builder_vars, exporter_vars, syntax_tree,
                   nfa_automaton>>

ExporterStep == AssignStart \/ AssignIter \/ AssignReturn \/ WriteFile

Next == ParserStep \/ BuilderStep \/ ExporterStep

Spec == Init /\ [][Next]_vars

\* a run is never suspended: process_regex runs to its end
FairSpec == Spec /\ WF_vars(Next)
(***************************************************************************)
(* What the claims are stated with.  None of this is program code: the     *)
(* grammar and the language of a pattern are those of the specification,   *)
(* and the simulation is the textbook epsilon-closure run of an NFA.       *)
(***************************************************************************)
Lit(c) == <<c, None, None>>

EmptyNode == <<"EMPTY", None, None>>

\* the ASTs the grammar derives for the whole of p:
\*   expr := term ('|' term)*     term := factor+
\*   factor := primary ('*' | '+')*
\*   primary := LITERAL | '\' ANY_CHAR | '(' expr ')' | '(' ')'
RECURSIVE RefExpr(_), RefTerm(_), RefFactor(_), RefPrimary(_)
RefPrimary(p) ==
    IF Len(p) = 1
    THEN IF p[1] \notin SPECIAL_SYMBOLS \cup {EscapeChar} THEN {Lit(p[1])} ELSE {}
    ELSE IF Len(p) = 2 /\ p[1] = EscapeChar THEN {Lit(p[2])}
    ELSE IF p = <<"(", ")">> THEN {EmptyNode}
    ELSE IF Len(p) >= 3 /\ p[1] = "(" /\ p[Len(p)] = ")"
    THEN RefExpr(SubSeq(p, 2, Len(p) - 1))
    ELSE {}

RefFactor(p) ==
    IF p = <<>> THEN {}
    ELSE RefPrimary(p) \cup
         (IF Len(p) >= 2 /\ p[Len(p)] \in {"*", "+"}
          THEN {<<IF p[Len(p)] = "*" THEN "STAR_OP" ELSE "PLUS_OP", x, None>> :
                    x \in RefFactor(SubSeq(p, 1, Len(p) - 1))}
          ELSE {})

RefTerm(p) ==
    RefFactor(p) \cup
    UNION {{<<"CONCAT_OP", l, r>> : l \in RefTerm(SubSeq(p, 1, k)),
                                    r \in RefFactor(SubSeq(p, k + 1, Len(p)))} :
           k \in 1..(Len(p) - 1)}

RefExpr(p) ==
    RefTerm(p) \cup
    UNION {{<<"OR_OP", l, r>> : l \in RefExpr(SubSeq(p, 1, k - 1)),
                                r \in RefTerm(SubSeq(p, k + 1, Len(p)))} :
           k \in {j \in 2..(Len(p) - 1) : p[j] = "|"}}

\* w is in the language of the AST n
RECURSIVE Matches(_, _)
Matches(n, w) ==
    LET pre(k) == SubSeq(w, 1, k)
        suf(k) == SubSeq(w, k + 1, Len(w))
    IN  IF n[1] = "CONCAT_OP"
        THEN \E k \in 0..Len(w) : Matches(n[2], pre(k)) /\ Matches(n[3], suf(k))
        ELSE IF n[1] = "OR_OP" THEN Matches(n[2], w) \/ Matches(n[3], w)
        ELSE IF n[1] = "STAR_OP"
        THEN w = <<>> \/ \E k \in 1..Len(w) : Matches(n[2], pre(k)) /\ Matches(n, suf(k))
        ELSE IF n[1] = "PLUS_OP"
        THEN \E k \in 0..Len(w) :
                Matches(n[2], pre(k)) /\ Matches(<<"STAR_OP", n[2], None>>, suf(k))
        ELSE IF n[1] = "EMPTY" THEN w = <<>>
        ELSE w = <<n[1]>>

RECURSIVE Leaves(_)
Leaves(n) ==
    IF n = None THEN {}
    ELSE IF n[2] = None /\ n[3] = None THEN {n[1]}
    ELSE Leaves(n[2]) \cup Leaves(n[3])

\* two states per literal, OR_OP, STAR_OP and PLUS_OP node, none per CONCAT_OP node
RECURSIVE StatesFor(_)
StatesFor(n) ==
    IF n = None THEN 0
    ELSE (IF n[1] = "CONCAT_OP" THEN 0 ELSE 2) + StatesFor(n[2]) + StatesFor(n[3])

\* the tokens of p as the specification reads them: '\' and the character after
\* it are one literal; a '\' with nothing after it is dangling
RECURSIVE Tokens(_)
Tokens(p) ==
    IF p = <<>> THEN <<>>
    ELSE IF p[1] = EscapeChar
    THEN IF Len(p) = 1 THEN << <<"dangling", EscapeChar>> >>
         ELSE << <<(IF p[2] \in SPECIAL_SYMBOLS THEN "esc" ELSE "escreg"), p[2]>> >>
              \o Tokens(SubSeq(p, 3, Len(p)))
    ELSE << <<(IF p[1] \in SPECIAL_SYMBOLS THEN "op" ELSE "lit"), p[1]>> >>
         \o Tokens(Tail(p))

IsOp(tok, chars) == tok[1] = "op" /\ tok[2] \in chars

\* a ')' that closes no earlier unclosed '('
RECURSIVE UnmatchedCloseFrom(_, _)
UnmatchedCloseFrom(toks, depth) ==
    IF toks = <<>> THEN FALSE
    ELSE IF IsOp(Head(toks), {"("}) THEN UnmatchedCloseFrom(Tail(toks), depth + 1)
    ELSE IF IsOp(Head(toks), {")"})
    THEN depth = 0 \/ UnmatchedCloseFrom(Tail(toks), depth - 1)
    ELSE UnmatchedCloseFrom(Tail(toks), depth)

HasUnmatchedClose(p) == UnmatchedCloseFrom(Tokens(p), 0)

\* the number of groups still open at the end of the input
RECURSIVE OpenAtEnd(_, _)
OpenAtEnd(toks, depth) ==
    IF toks = <<>> THEN depth
    ELSE IF IsOp(Head(toks), {"("}) THEN OpenAtEnd(Tail(toks), depth + 1)
    ELSE IF IsOp(Head(toks), {")"})
    THEN OpenAtEnd(Tail(toks), IF depth = 0 THEN 0 ELSE depth - 1)
    ELSE OpenAtEnd(Tail(toks), depth)

HasUnmatchedOpen(p) == OpenAtEnd(Tokens(p), 0) > 0

EndsInDanglingEscape(p) ==
    LET toks == Tokens(p) IN toks # <<>> /\ toks[Len(toks)][1] = "dangling"

\* '*' or '+' at the start, right after '(' or right after '|'
PostfixWithoutOperand(p) ==
    LET toks == Tokens(p)
    IN  \E i \in 1..Len(toks) :
            /\ IsOp(toks[i], {"*", "+"})
            /\ (i = 1 \/ IsOp(toks[i - 1], {"(", "|"}))

\* '|' with nothing to its left or to its right
AlternationWithoutOperand(p) ==
    LET toks == Tokens(p)
    IN  \E i \in 1..Len(toks) :
            /\ IsOp(toks[i], {"|"})
            /\ \/ i = 1 \/ i = Len(toks)
               \/ IsOp(toks[i - 1], {"(", "|"})
               \/ IsOp(toks[i + 1], {")", "|"})

EscapesARegularChar(p) == \E i \in 1..Len(Tokens(p)) : Tokens(p)[i][1] = "escreg"

EscapesASpecialSymbol(p) == \E i \in 1..Len(Tokens(p)) : Tokens(p)[i][1] = "esc"

\* the epsilon-closure simulation of the automaton
RECURSIVE EpsClosure(_, _)
EpsClosure(eps, S) ==
    LET T == S \cup UNION {Range(eps[s]) : s \in S}
    IN  IF T = S THEN S ELSE EpsClosure(eps, T)

Move(chars, S, c) ==
    UNION {UNION {Range(chars[s][i][2]) : i \in {j \in 1..Len(chars[s]) : chars[s][j][1] = c}} :
           s \in S}

RECURSIVE RunFrom(_, _, _, _)
RunFrom(chars, eps, S, w) ==
    IF w = <<>> THEN S
    ELSE RunFrom(chars, eps, EpsClosure(eps, Move(chars, S, Head(w))), Tail(w))

Accepts(nfa, w) ==
    nfa.final_state \in
        RunFrom(char_transitions, eps_transitions,
                EpsClosure(eps_transitions, {nfa.init_state}), w)

\* the states some path of symbol and epsilon transitions reaches from s
RECURSIVE ReachFrom(_)
ReachFrom(S) ==
    LET T == S \cup UNION {Range(eps_transitions[s]) \cup
                           Range(CharTargets(char_transitions, s)) : s \in S}
    IN  IF T = S THEN S ELSE ReachFrom(T)

AllStates == 1..Len(eps_transitions)

InputLetters == Literals \cup {"c"}

\* the strings the automata are run on
InputStrings == SeqsUpTo(InputLetters, MaxStr + 1) \cup ExampleStrings

AnyStrings == SeqsUpTo(Alphabet, MaxStr) \cup ExampleStrings

ParseEnded == pc \notin {"parse", "parsing"}

Finished == pc \in {"done", "failed"}

Built == nfa_automaton # None

RefAst(p) == CHOOSE t \in RefExpr(p) : TRUE

\* built from plain literals, concatenation, '|', '*', '+' and non-empty groups
PlainWellFormed(p) ==
    /\ EscapeChar \notin Range(p)
    /\ \A i \in 1..(Len(p) - 1) : ~(p[i] = "(" /\ p[i + 1] = ")")
    /\ RefExpr(p) # {}

(***************************************************************************)
(* C1.  For every pattern built from plain literals, concatenation, '|',   *)
(* '*', '+' and non-empty groups, parse-then-construct returns an          *)
(* automaton, and its epsilon-closure simulation from init_state accepts a *)
(* string exactly when the string is in the language of the pattern; the   *)
(* examples the specification lists come out as it says.                   *)
(***************************************************************************)
C1_Examples ==
    { <<<<"a", "|", "b">>, <<"a">>, TRUE>>, <<<<"a", "|", "b">>, <<"b">>, TRUE>>,
      <<<<"a", "|", "b">>, <<"a", "b">>, FALSE>>, <<<<"a", "|", "b">>, <<>>, FALSE>>,
      <<<<"a", "*">>, <<>>, TRUE>>, <<<<"a", "*">>, <<"a", "a", "a", "a">>, TRUE>>,
      <<<<"a", "*">>, <<"b">>, FALSE>>,
      <<<<"a", "+">>, <<>>, FALSE>>, <<<<"a", "+">>, <<"a">>, TRUE>>,
      <<<<"a", "+">>, <<"a", "a">>, TRUE>>,
      <<<<"a", "b">>, <<"a", "b">>, TRUE>>, <<<<"a", "b">>, <<"a">>, FALSE>>,
      <<<<"(", "a", "|", "b", ")", "*", "c">>, <<"c">>, TRUE>>,
      <<<<"(", "a", "|", "b", ")", "*", "c">>, <<"a", "c">>, TRUE>>,
      <<<<"(", "a", "|", "b", ")", "*", "c">>, <<"b", "b", "b", "a", "c">>, TRUE>>,
      <<<<"(", "a", "|", "b", ")", "*", "c">>, <<"a", "b">>, FALSE>>,
      <<<<"(", "a", "|", "b", ")", "*", "c">>, <<>>, FALSE>> }

C1_AcceptsExactlyTheLanguage ==
    (pc = "failed" \/ Built) =>
        (PlainWellFormed(regex_pattern) =>
            /\ pc # "failed"
            /\ \A w \in InputStrings :
                   Accepts(nfa_automaton, w) <=> Matches(RefAst(regex_pattern), w)
            /\ \A e \in C1_Examples :
                   e[1] = regex_pattern => (Accepts(nfa_automaton, e[2]) <=> e[3]))

C1_Witness ==
    /\ pc = "done"
    /\ regex_pattern = <<"(", "a", "|", "b", ")", "*", "c">>
    /\ Accepts(nfa_automaton, <<"b", "b", "b", "a", "c">>)
    /\ ~Accepts(nfa_automaton, <<"a", "b">>)

(***************************************************************************)
(* C2.  Whenever parse returns an AST, that AST is the one the reference   *)
(* grammar (alternation below concatenation below postfix repetition below *)
(* the primaries, both folds to the left) derives for the pattern.         *)
(***************************************************************************)
C2_AstIsTheGrammarsAst ==
    pc = "construct" => RefExpr(regex_pattern) = {syntax_tree}

\* the same, for the patterns parse consumes to their end and in which no regular
\* character is escaped: there the precedence and the folds are the grammar's
C2_PrecedenceOnConsumedInput ==
    (pc = "construct" /\ token_queue = <<>> /\ ~EscapesARegularChar(regex_pattern)) =>
        RefExpr(regex_pattern) = {syntax_tree}

(***************************************************************************)
(* C3.  A pattern with a ')' that closes no '(' makes parse fail and       *)
(* return no AST; parse never returns with part of the input unconsumed.   *)
(***************************************************************************)
C3_UnmatchedCloseRejected ==
    /\ (HasUnmatchedClose(regex_pattern) /\ ParseEnded) =>
            (pc = "failed" /\ syntax_tree = None)
    /\ pc = "construct" => token_queue = <<>>

(***************************************************************************)
(* C4.  A pattern with an unmatched '(', a trailing escape character, a    *)
(* postfix operator without an operand or an alternation without an        *)
(* operand makes parse fail; no automaton is built and no file is written. *)
(***************************************************************************)
MalformedC4(p) ==
    \/ HasUnmatchedOpen(p)
    \/ EndsInDanglingEscape(p)
    \/ PostfixWithoutOperand(p)
    \/ AlternationWithoutOperand(p)

NothingProduced ==
    /\ pc \in {"parse", "parsing", "failed"}
    /\ syntax_tree = None
    /\ char_transitions = <<>>
    /\ nfa_automaton = None
    /\ out_file = None

\* C4: a malformed pattern ends in an error, with no AST, no automaton and no file
C4_MalformedRejected == MalformedC4(regex_pattern) => NothingProduced

\* the same, for the patterns in which every ')' closes a '(' and no regular
\* character is escaped
C4_RejectedOtherwise ==
    (/\ MalformedC4(regex_pattern)
     /\ ~HasUnmatchedClose(regex_pattern)
     /\ ~EscapesARegularChar(regex_pattern)) => NothingProduced

(***************************************************************************)
(* C5.  A pattern the grammar accepts and that holds an empty group '()'   *)
(* is accepted by the parser, and the automaton built for it accepts       *)
(* exactly the pattern's language, the group matching the empty string.    *)
(***************************************************************************)
HoldsEmptyGroup(p) == RefExpr(p) # {} /\ "EMPTY" \in Leaves(RefAst(p))

\* C5: a pattern holding an empty group is parsed, and its automaton accepts the
\* language in which the group matches the empty string
C5_EmptyGroupAccepted ==
    (ParseEnded /\ HoldsEmptyGroup(regex_pattern)) =>
        /\ pc # "failed"
        /\ Built => \A w \in InputStrings :
                        Accepts(nfa_automaton, w) <=> Matches(RefAst(regex_pattern), w)

(***************************************************************************)
(* C6.  In a pattern the grammar accepts, whose escapes all escape special *)
(* symbols and that has no empty group, every '\x' becomes the one literal *)
(* node for x: parse returns the grammar's AST with the input consumed,    *)
(* postfix operators and concatenation around '\x' included; and the       *)
(* automaton of the pattern '\x' alone accepts the string x and no other.  *)
(***************************************************************************)
EscapesOnlySpecials(p) ==
    /\ EscapesASpecialSymbol(p)
    /\ ~EscapesARegularChar(p)
    /\ RefExpr(p) # {}
    /\ "EMPTY" \notin Leaves(RefAst(p))

\* C6: an escaped special symbol is a literal leaf of the AST and the automaton
\* matches exactly that character for it
C6_EscapedSpecialIsLiteral ==
    (ParseEnded /\ EscapesOnlySpecials(regex_pattern)) =>
        /\ pc # "failed"
        /\ token_queue = <<>>
        /\ syntax_tree = RefAst(regex_pattern)
        /\ \A x \in SPECIAL_SYMBOLS :
               (regex_pattern = <<EscapeChar, x>>) =>
                    /\ syntax_tree = <<x, None, None>>
                    /\ Built => \A w \in AnyStrings :
                                    Accepts(nfa_automaton, w) <=> w = <<x>>

C6_Witness ==
    /\ pc = "done"
    /\ regex_pattern = <<"\\", "(", "a", "\\", ")", "*">>
    /\ syntax_tree = <<"CONCAT_OP", <<"CONCAT_OP", Lit("("), Lit("a")>>,
                                    <<"STAR_OP", Lit(")"), None>> >>
    /\ Accepts(nfa_automaton, <<"(", "a", ")", ")">>)

(***************************************************************************)
(* C7.  For a regular character c (the escape character included) the     *)
(* pattern '\c' is either parsed to the literal node of c or rejected, and *)
(* the escape character is no literal node of its AST.  (Every policy the  *)
(* claim allows gives this in each run.)                                   *)
(***************************************************************************)
C7_EscapedRegularPolicy ==
    \A c \in Alphabet \ SPECIAL_SYMBOLS :
        (ParseEnded /\ regex_pattern = <<EscapeChar, c>>) =>
            \/ pc = "failed"
            \/ /\ syntax_tree = <<c, None, None>>
               /\ (c # EscapeChar => EscapeChar \notin Leaves(syntax_tree))

(***************************************************************************)
(* C8.  Every run ends, with an error or with an automaton; every          *)
(* iteration of the parser's loops and every call of _parse_primary leaves *)
(* the token queue strictly shorter than it found it; the final_state of   *)
(* a returned automaton is reachable from its init_state.                  *)
(***************************************************************************)
\* the frames this step ends, by a return or by an exception
EndedFrames == {stack[i] : i \in (Len(stack') + 1)..Len(stack)}

LoopsShrink ==
    /\ \A f \in EndedFrames : f.at = "right" => Len(token_queue') < f.entry
    /\ (stack # <<>> /\ Len(stack') = Len(stack)) =>
            /\ Top.at = "right" => Len(token_queue) < Top.entry
            /\ (Top.fn = "factor" /\ Top.at = "loop") => Len(token_queue') < Len(token_queue)

PrimaryShrinks(on_empty_too) ==
    \A f \in EndedFrames :
        (f.fn = "primary" /\ (on_empty_too \/ f.entry > 0)) => Len(token_queue') < f.entry

FinalReachable ==
    Built => nfa_automaton.final_state \in ReachFrom({nfa_automaton.init_state})

\* C8: every run ends, every loop iteration and every call of _parse_primary leaves
\* the token queue strictly shorter, and the final state is reachable from the initial
C8_AsClaimed ==
    /\ <>Finished
    /\ [][pc = "parsing" => (LoopsShrink /\ PrimaryShrinks(TRUE))]_vars
    /\ [](FinalReachable /\ (pc = "done" => Built))

\* C8, with the empty queue set apart: a call of _parse_primary on an empty token
\* queue raises at once and consumes nothing; every call on a non-empty queue leaves
\* it strictly shorter; every run ends and the final state is reachable
C8_TerminatesAndShrinks ==
    /\ <>Finished
    /\ [][pc = "parsing" => (LoopsShrink /\ PrimaryShrinks(FALSE))]_vars
    /\ [](FinalReachable /\ (pc = "done" => Built))

C8_Witness ==
    /\ pc = "done"
    /\ regex_pattern = <<"(", "\\", "a", ")">>
    /\ token_queue = <<>>
    /\ nfa_automaton.final_state \in ReachFrom({nfa_automaton.init_state})

(***************************************************************************)
(* C9.  After construct every allocated AutomataState is reachable from    *)
(* the returned init_state, the number of states is two per literal,       *)
(* OR_OP, STAR_OP and PLUS_OP node and none per CONCAT_OP node, and the    *)
(* automaton has one final state: the file lists every allocated state     *)
(* and marks exactly one of them final.                                    *)
(***************************************************************************)
C9_NoOrphansAndCount ==
    /\ Built =>
        /\ ReachFrom({nfa_automaton.init_state}) = AllStates
        /\ Len(eps_transitions) = StatesFor(syntax_tree)
        /\ Len(char_transitions) = Len(eps_transitions)
        /\ nfa_automaton.final_state \in AllStates
        /\ regex_pattern = <<"a">> => Len(eps_transitions) = 2
        /\ regex_pattern = <<"a", "b">> => Len(eps_transitions) = 4
    /\ pc = "failed" => out_file = None
    /\ pc = "done" =>
        /\ Len(out_file.ids) = Len(eps_transitions)
        /\ Cardinality({k \in 1..Len(out_file.marks) : out_file.marks[k] = "1"}) = 1

C9_Witness ==
    /\ pc = "done"
    /\ regex_pattern = <<"(", "a", "|", "b", ")", "*", "c">>
    /\ Len(eps_transitions) = 10
    /\ ReachFrom({nfa_automaton.init_state}) = 1..10

(***************************************************************************)
(* C10.  Every fragment construct has returned keeps the Thompson shape:   *)
(* no transition leaves its final_state, none enters its init_state, the   *)
(* two differ; every state has one symbol transition to one target and no  *)
(* epsilon transition, or no symbol transition and at most two epsilon     *)
(* transitions to distinct targets; a build step adds transitions only to  *)
(* the final_state of a fragment it composes or to states it creates.      *)
(***************************************************************************)
Fragments == Range(frags) \cup (IF Built THEN {nfa_automaton} ELSE {})

TargetsOf(s) == Range(eps_transitions[s]) \cup Range(CharTargets(char_transitions, s))

StateShape(s) ==
    \/ /\ Len(char_transitions[s]) = 1
       /\ Len(char_transitions[s][1][2]) = 1
       /\ eps_transitions[s] = <<>>
    \/ /\ char_transitions[s] = <<>>
       /\ Len(eps_transitions[s]) <= 2
       /\ Cardinality(Range(eps_transitions[s])) = Len(eps_transitions[s])

ThompsonShape ==
    /\ \A f \in Fragments :
        /\ eps_transitions[f.final_state] = <<>>
        /\ char_transitions[f.final_state] = <<>>
        /\ \A s \in AllStates : f.init_state \notin TargetsOf(s)
        /\ f.init_state # f.final_state
    /\ \A s \in AllStates : StateShape(s)

\* the fragments this step composes
Operands == {frags[i] : i \in {j \in Len(frags')..Len(frags) : j >= 1}}

IsPrefix(s, t) == Len(s) <= Len(t) /\ SubSeq(t, 1, Len(s)) = s

OnlyFinalOrFresh ==
    \A s \in AllStates :
        /\ IsPrefix(eps_transitions[s], eps_transitions'[s])
        /\ IsPrefix(char_transitions[s], char_transitions'[s])
        /\ (eps_transitions'[s] # eps_transitions[s] \/ char_transitions'[s] # char_transitions[s])
               => \E f \in Operands : s = f.final_state

\* C10: every returned fragment keeps the Thompson shape, and a later step adds
\* transitions only to fresh states or to the final state of an operand
C10_ThompsonShape == [](ThompsonShape) /\ [][OnlyFinalOrFresh]_vars

C10_Witness ==
    /\ pc = "constructing"
    /\ regex_pattern = <<"(", "a", "b", ")", "+", "|", "c">>
    /\ Len(frags) = 2
    /\ Len(eps_transitions) = 8
    /\ ThompsonShape
====
